---- MODULE Spec2Model ----
(***************************************************************************)
(* A model of the retrieval pipeline of the RAG document Q&A backend:      *)
(* the chunker (DocumentProcessor._create_chunks), the vector store        *)
(* (VectorStore.create_index / search), the tiers of its embeddings        *)
(* (VectorStore.get_embedding), the answer assembly                        *)
(* (RAGPipeline.get_response_with_sources) and the request handlers of     *)
(* api/routes.py that own the single active corpus generation.             *)
(***************************************************************************)
EXTENDS Integers, Sequences, FiniteSets, TLC

(***************************************************************************)
(* Bounds of the model.                                                    *)
(***************************************************************************)
MaxLen == 6
MaxChunkSize == 4
MaxOverlap == 3
MaxIter == 7
MaxDocs == 3
MaxK == 4
MaxResults == 4
MaxBuilds == 2

(***************************************************************************)
(* Program constants.                                                      *)
(***************************************************************************)
DefaultChunkSize == 1000
DefaultChunkOverlap == 200

VARIABLES
    \* ---- DocumentProcessor._create_chunks ----
    text,           \* the (cleaned) text being chunked, a sequence of characters
    source_name,    \* the name the chunks are tagged with
    chunk_size,     \* self.chunk_size
    chunk_overlap,  \* self.chunk_overlap
    start,          \* local start
    chunks,         \* local chunks: the list being returned
    ranges,         \* history: the <<start, end>> of every loop iteration
    cpc,            \* position in _create_chunks: "idle", "start", "loop" or "done"
    \* ---- one VectorStore object and a search on it ----
    vs,             \* the fields of the VectorStore
    vs_raised,      \* whether create_index raised
    s_k,            \* the k of the search (0: no search yet)
    s_results,      \* what search returned
    \* ---- RAGPipeline.get_response_with_sources ----
    a_results,      \* the results search handed to it
    a_unique,       \* local unique_sources
    answer,         \* the dictionary it returns
    apc,            \* "idle", "call" or "done"
    \* ---- api/routes.py: the handlers and what they share ----
    uploads,        \* the files in storage/uploads
    stores,         \* the VectorStore objects created so far, by number
    allocated,      \* how many there are
    rag_pipeline,   \* global rag_pipeline: 0 for None, else the number of its store
    processed_documents, \* global processed_documents
    ing,            \* the process_documents request in flight
    qry,            \* the query_documents request in flight, and what it read
    resp,           \* the last response sent
    committed,      \* history: the generation last put in place, and all of them
    \* ---- VectorStore.get_embedding, in create_index and in search ----
    e_documents,    \* the documents create_index was handed
    e_tfidf,        \* self._tfidf_vectorizer: "unset", "fitted" or "none"
    e_embeddings,   \* local embeddings of create_index: the tier of each vector
    e_last,         \* history: the last call of get_embedding and its outcome
    epc             \* "idle", "fit", "embed", "built", "searched" or "raised"

chunkVars == <<text, source_name, chunk_size, chunk_overlap, start, chunks, ranges, cpc>>
storeVars == <<vs, vs_raised, s_k, s_results>>

answerVars == <<a_results, a_unique, answer, apc>>

sysVars == <<uploads, stores, allocated, rag_pipeline, processed_documents, ing, qry,
             resp, committed>>

embedVars == <<e_documents, e_tfidf, e_embeddings, e_last, epc>>

vars == <<chunkVars, storeVars, answerVars, sysVars, embedVars>>

\* VectorStore.__init__: no index, no documents, no embeddings
FreshStore ==
    [documents |-> <<>>, tfidf |-> "none", rows |-> 0, index |-> -1,
     docs_gen |-> 0, vec_gen |-> 0, idx_gen |-> 0]

\* the values of the variables of a part of the program that is not running
IdleChunk ==
    /\ text = <<>>
    /\ source_name = ""
    /\ chunk_size = DefaultChunkSize
    /\ chunk_overlap = DefaultChunkOverlap
    /\ start = 0
    /\ chunks = <<>>
    /\ ranges = <<>>
    /\ cpc = "idle"

IdleStore ==
    /\ vs = FreshStore
    /\ vs_raised = FALSE
    /\ s_k = 0
    /\ s_results = <<>>

NoAnswer == [response |-> "none", sources |-> <<>>, confidence |-> 0, num_sources |-> 0]

IdleAnswer ==
    /\ a_results = <<>>
    /\ a_unique = <<>>
    /\ answer = NoAnswer
    /\ apc = "idle"

NoIngest == [pc |-> "idle", file_ids |-> <<>>, all_chunks |-> <<>>, processed_files |-> <<>>,
             store |-> 0, build |-> 0]
NoQuery == [pc |-> "idle", query |-> <<>>, store |-> 0, gen |-> -1, vec_gen |-> -1,
            idx_gen |-> -1, docs_gen |-> -1]

\* a response carries the text of the query it answers and, from
\* get_system_stats, the statistics
NoStats == [total_documents |-> 0, total_chunks |-> 0, embedding_dimension |-> 0,
            index_size |-> 0, status |-> "none"]
Response(handler, status, detail) ==
    [handler |-> handler, status |-> status, detail |-> detail, query |-> <<>>,
     stats |-> NoStats]
QueryResponse(status, detail, query) ==
    [Response("query", status, detail) EXCEPT !.query = query]
NoResponse == Response("none", 0, "")
NothingCommitted == [pipeline |-> 0, store |-> FreshStore, documents |-> <<>>, gens |-> {}]

\* the state of the service after start-up: nothing uploaded, nothing processed
IdleSystem ==
    /\ uploads = {}
    /\ stores = [i \in 1 .. MaxBuilds |-> FreshStore]
    /\ allocated = 0
    /\ rag_pipeline = 0
    /\ processed_documents = <<>>
    /\ ing = NoIngest
    /\ qry = NoQuery
    /\ resp = NoResponse
    /\ committed = NothingCommitted

\* no call of get_embedding yet
NoCall == [called |-> FALSE, fitted |-> FALSE, transform_fails |-> FALSE,
           hash_fails |-> FALSE, raised |-> FALSE, tier |-> "none"]

\* a VectorStore on which create_index was not called
IdleEmbed ==
    /\ e_documents = <<>>
    /\ e_tfidf = "unset"
    /\ e_embeddings = <<>>
    /\ e_last = NoCall
    /\ epc = "idle"

Min(a, b) == IF a <= b THEN a ELSE b
Max(a, b) == IF a >= b THEN a ELSE b

(***************************************************************************)
(* Strings are sequences of one-character strings; Python indices are      *)
(* 0-based, so text[i] of the code is text[i + 1] here.                    *)
(***************************************************************************)
Chars == {"a", ".", " "}

RECURSIVE TextsOfLen(_)
TextsOfLen(n) ==
    IF n = 0 THEN {<<>>}
    ELSE {Append(t, c) : t \in TextsOfLen(n - 1), c \in Chars}

\* str.rfind(c, lo, hi): the highest index i with lo <= i < hi and s[i] = c, else -1
RFind(s, c, lo, hi) ==
    LET hits == {i \in lo .. (Min(hi, Len(s)) - 1) : s[i + 1] = c}
    IN  IF hits = {} THEN -1 ELSE CHOOSE i \in hits : \A j \in hits : j <= i

\* s[lo:hi] for 0 <= lo, 0 <= hi
Slice(s, lo, hi) == SubSeq(s, lo + 1, Min(hi, Len(s)))

\* str.strip() on a text whose only whitespace is " "
Strip(s) ==
    LET keep == {i \in 1 .. Len(s) : s[i] # " "}
    IN  IF keep = {} THEN <<>>
        ELSE SubSeq(s, CHOOSE i \in keep : \A j \in keep : i <= j,
                       CHOOSE i \in keep : \A j \in keep : j <= i)

\* what _clean_text returns: trimmed, no two spaces in a row
IsCleaned(s) ==
    /\ Len(s) > 0 => (s[1] # " " /\ s[Len(s)] # " ")
    /\ \A i \in 1 .. (Len(s) - 1) : ~(s[i] = " " /\ s[i + 1] = " ")

(***************************************************************************)
(* DocumentProcessor._create_chunks, one loop iteration at a time.         *)
(***************************************************************************)
\* lines 132-141: where the chunk starting at st ends
ChunkEnd(s, st, size) ==
    LET end == st + size
    IN  IF end < Len(s)
        THEN LET sentence_end == RFind(s, ".", st, end)
             IN  IF sentence_end # -1 /\ sentence_end > st + (size \div 2)
                 THEN sentence_end + 1
                 ELSE LET word_end == RFind(s, " ", st, end)
                      IN  IF word_end # -1 /\ word_end > st + (size \div 2)
                          THEN word_end
                          ELSE end
        ELSE end

\* a gap-leaving variant of the advance: the overlap is added, not subtracted
NextStartAdded(end, overlap) ==
    IF end + overlap <= 0 THEN end ELSE end + overlap

\* an advance that forgets the overlap
NextStartNoOverlap(end, overlap) == end

\* lines 149-151: where the next chunk starts
NextStart(end, overlap) ==
    IF end - overlap <= 0 THEN end ELSE end - overlap

\* line 146: the chunk after its "[Source: name]\n" header
WithMetadata(name, chunk) == [header |-> TRUE, source |-> name, body |-> chunk]

\* lines 143-147
AppendChunk(cs, name, s, st, end) ==
    LET chunk == Strip(Slice(s, st, end))
    IN  IF chunk # <<>> THEN Append(cs, WithMetadata(name, chunk)) ELSE cs

\* lines 125-126: the empty text returns at once
ChunkReturnEmpty ==
    /\ cpc = "start"
    /\ text = <<>>
    /\ cpc' = "done"
    /\ UNCHANGED <<text, source_name, chunk_size, chunk_overlap, start, chunks, ranges>>
    /\ UNCHANGED <<storeVars, answerVars, sysVars, embedVars>>

\* lines 128-129
ChunkEnter ==
    /\ cpc = "start"
    /\ text # <<>>
    /\ start' = 0
    /\ chunks' = <<>>
    /\ cpc' = "loop"
    /\ UNCHANGED <<text, source_name, chunk_size, chunk_overlap, ranges>>
    /\ UNCHANGED <<storeVars, answerVars, sysVars, embedVars>>

\* lines 131-151: one iteration of the while loop
ChunkLoop ==
    /\ cpc = "loop"
    /\ start < Len(text)
    /\ Len(ranges) < MaxIter
    /\ LET end == ChunkEnd(text, start, chunk_size)
       IN  /\ chunks' = AppendChunk(chunks, source_name, text, start, end)
           /\ ranges' = Append(ranges, <<start, end>>)
           /\ start' = NextStart(end, chunk_overlap)
    /\ UNCHANGED <<text, source_name, chunk_size, chunk_overlap, cpc>>
    /\ UNCHANGED <<storeVars, answerVars, sysVars, embedVars>>

\* lines 131, 153: the loop condition fails and the chunks are returned
ChunkExit ==
    /\ cpc = "loop"
    /\ start >= Len(text)
    /\ cpc' = "done"
    /\ UNCHANGED <<text, source_name, chunk_size, chunk_overlap, start, chunks, ranges>>
    /\ UNCHANGED <<storeVars, answerVars, sysVars, embedVars>>

InitChunk ==
    /\ text \in UNION {TextsOfLen(n) : n \in 0 .. MaxLen}
    /\ source_name = "f1"
    /\ chunk_size \in 1 .. MaxChunkSize
    /\ chunk_overlap \in 0 .. MaxOverlap
    /\ start = 0
    /\ chunks = <<>>
    /\ ranges = <<>>
    /\ cpc = "start"
    /\ IdleStore /\ IdleAnswer /\ IdleSystem /\ IdleEmbed

NextChunk == ChunkReturnEmpty \/ ChunkEnter \/ ChunkLoop \/ ChunkExit

\* _create_chunks on every text up to MaxLen and every chunk_size and overlap
SpecChunk == InitChunk /\ [][NextChunk]_vars

(***************************************************************************)
(* The scenario of the specification: one 1500-character document chunked  *)
(* with the defaults of DocumentProcessor.__init__.  The texts are all     *)
(* letters except for one boundary character ("." or " ") at a marked       *)
(* position and, possibly, a "." late in the text.                         *)
(***************************************************************************)
ScenarioLen == DefaultChunkSize + (DefaultChunkSize \div 2)

ScenarioMarks == {i \in 1 .. ScenarioLen : i % 100 \in {0, 1, 2, 99}}

\* the text with c1 at position p1 and "." at position p2 (0: nowhere)
ScenarioText(p1, c1, p2) ==
    [i \in 1 .. ScenarioLen |-> IF i = p1 THEN c1 ELSE IF i = p2 THEN "." ELSE "a"]

ScenarioTexts ==
    {t \in {ScenarioText(p1, c1, p2) :
                p1 \in ScenarioMarks \cup {0}, c1 \in {".", " "},
                p2 \in {0, ScenarioLen - DefaultChunkOverlap}} : IsCleaned(t)}

InitScenario ==
    /\ text \in ScenarioTexts
    /\ source_name = "f1"
    /\ chunk_size = DefaultChunkSize
    /\ chunk_overlap = DefaultChunkOverlap
    /\ start = 0
    /\ chunks = <<>>
    /\ ranges = <<>>
    /\ cpc = "start"
    /\ IdleStore /\ IdleAnswer /\ IdleSystem /\ IdleEmbed

NextScenario == ChunkEnter \/ ChunkLoop \/ ChunkExit

SpecScenario == InitScenario /\ [][NextScenario]_vars

(***************************************************************************)
(* VectorStore.  A document is a record: header says whether the text      *)
(* starts with the "[Source: name]\n" header that _create_chunks writes,   *)
(* source is the name in the header and body is the text after it, a       *)
(* sequence of words.  The fields of a store are: documents, tfidf ("none" *)
(* or "fitted"), rows (len(self.embeddings)), index (-1 for None, else the *)
(* number of vectors in the FAISS index), and for each of these the build  *)
(* that wrote it (docs_gen, vec_gen, idx_gen; 0 before any build).         *)
(***************************************************************************)
PreviewLimit == 300
\* the distance FAISS reports with the label -1 when the index has fewer than
\* k vectors: the most negative float32, here a number below every cosine
MissingScore == -1000000
\* cosine similarities, in hundredths
ScoreValues == {-20, 40, 90}

\* the two filler strings of the padding variant of create_index
Padding1 ==
    [header |-> FALSE, source |-> "",
     body |-> <<"This", "is", "a", "padding", "document", "for", "TF-IDF", "processing.">>]
Padding2 ==
    [header |-> FALSE, source |-> "",
     body |-> <<"Another", "padding", "document", "to", "ensure", "proper", "TF-IDF",
                "functionality.">>]
PaddingDocs == <<Padding1, Padding2>>

\* the substring search skips documents by
PaddingPhrase == <<"padding", "document", "for", "TF-IDF">>

\* needle in hay, for sequences of words
Contains(hay, needle) ==
    \E i \in 0 .. (Len(hay) - Len(needle)) :
        \A j \in 1 .. Len(needle) : hay[i + j] = needle[j]

\* a chunk text one character longer than a preview may show, character by
\* character (the short texts are written word by word)
LongBody == [i \in 1 .. PreviewLimit + 1 |-> "a"]

\* the chunks the documents of the corpus are made of: one per source, one
\* whose own text quotes the padding phrase, and one too long for a preview
Catalog ==
    { WithMetadata("a.txt", <<"alpha", "beta">>),
      WithMetadata("b.txt", <<"gamma">>),
      WithMetadata("b.txt", <<"a", "padding", "document", "for", "TF-IDF", "here">>),
      WithMetadata("c.txt", LongBody) }

RECURSIVE CorporaOfLen(_)
CorporaOfLen(n) ==
    IF n = 0 THEN {<<>>}
    ELSE {Append(c, d) : c \in CorporaOfLen(n - 1), d \in Catalog}

Corpora == UNION {CorporaOfLen(n) : n \in 0 .. MaxDocs}

\* the two definitions of create_index in the repository: the one of
\* core/vector_store.py ("plain") and the one kept in core/document_processor.py,
\* which pads a corpus of fewer than 2 chunks ("padding")
Variants == {"plain", "padding"}

\* document_processor.py lines 244-249
PaddedDocuments(documents, variant) ==
    IF variant = "padding" /\ Len(documents) < 2
    THEN documents \o PaddingDocs
    ELSE documents

\* create_index, lines 91-92: documents stored, the vectorizer fitted (fit) or
\* left None when the fit fails; b is the build
CreateIndexDocuments(store, documents, variant, fit, b) ==
    [store EXCEPT !.documents = PaddedDocuments(documents, variant),
                  !.docs_gen = b,
                  !.tfidf = IF fit THEN "fitted" ELSE "none",
                  !.vec_gen = b]

\* create_index, lines 94-106: one embedding per document, the index over them
CreateIndexVectors(store, b) ==
    [store EXCEPT !.rows = Len(store.documents),
                  !.index = Len(store.documents),
                  !.idx_gen = b]

\* the whole of create_index when nothing raises
CreateIndex(store, documents, variant, fit, b) ==
    CreateIndexVectors(CreateIndexDocuments(store, documents, variant, fit, b), b)

\* documents[idx] with Python's indexing: a negative idx counts from the end
PyIndex(documents, idx) ==
    IF idx >= 0 THEN documents[idx + 1] ELSE documents[Len(documents) + idx + 1]

\* lines 171-176: the source name is what follows "[Source:" up to "]\n", that
\* is the name with the space before it; the preview is the text after the header
SourceNameOf(doc) == IF doc.header THEN " " \o doc.source ELSE "Unknown"

\* line 182: preview_text[:300] + "..." when the text is longer than 300
Preview(body) ==
    IF Len(body) > PreviewLimit
    THEN SubSeq(body, 1, PreviewLimit) \o <<".", ".", ".">>
    ELSE body

\* the orders in which FAISS can report n rows with the scores sc: every
\* permutation of 0 .. n-1 along which the scores do not increase
Rankings(n, sc) ==
    {ord \in [1 .. n -> 0 .. (n - 1)] :
        /\ \A i, j \in 1 .. n : i # j => ord[i] # ord[j]
        /\ \A i \in 1 .. (n - 1) : sc[ord[i]] >= sc[ord[i + 1]]}

\* index.search(query_embedding, k), line 153: k candidates, the best first,
\* filled up with the label -1 when the index holds fewer than k vectors
FaissSearch(n, ord, sc, k) ==
    [i \in 1 .. k |->
        IF i <= n THEN [idx |-> ord[i], distance |-> sc[ord[i]]]
        ELSE [idx |-> -1, distance |-> MissingScore]]

\* lines 156-187: the loop over the candidates, from candidate i (1-based) on
RECURSIVE SearchLoop(_, _, _, _, _)
SearchLoop(documents, cands, i, k, results) ==
    IF i > Len(cands) THEN results
    ELSE
        LET idx == cands[i].idx
        IN  IF idx >= Len(documents)
            THEN SearchLoop(documents, cands, i + 1, k, results)
            ELSE
                LET doc == PyIndex(documents, idx)
                IN  IF Contains(doc.body, PaddingPhrase)
                    THEN SearchLoop(documents, cands, i + 1, k, results)
                    ELSE
                        LET r == [chunk_id |-> i,
                                  source_name |-> SourceNameOf(doc),
                                  similarity_score |-> cands[i].distance,
                                  preview |-> Preview(doc.body)]
                            rs == Append(results, r)
                        IN  IF Len(rs) >= k THEN rs
                            ELSE SearchLoop(documents, cands, i + 1, k, rs)

\* VectorStore.search on a built index
Search(store, ord, sc, k) ==
    SearchLoop(store.documents, FaissSearch(store.index, ord, sc, k), 1, k, <<>>)

\* create_index on a fresh store: it succeeds
StoreCreateIndex ==
    /\ vs = FreshStore /\ ~vs_raised
    /\ \E documents \in Corpora \ {<<>>}, variant \in Variants, fit \in BOOLEAN :
           vs' = CreateIndex(vs, documents, variant, fit, 1)
    /\ UNCHANGED <<vs_raised, s_k, s_results>>
    /\ UNCHANGED <<chunkVars, answerVars, sysVars, embedVars>>

\* lines 87-88 and 109-111: no documents, ValueError
StoreCreateIndexEmpty ==
    /\ vs = FreshStore /\ ~vs_raised
    /\ vs_raised' = TRUE
    /\ UNCHANGED <<vs, s_k, s_results>>
    /\ UNCHANGED <<chunkVars, answerVars, sysVars, embedVars>>

\* lines 94-111: building the vectors or the index raises after the documents
\* were stored
StoreCreateIndexRaise ==
    /\ vs = FreshStore /\ ~vs_raised
    /\ \E documents \in Corpora \ {<<>>}, variant \in Variants, fit \in BOOLEAN :
           vs' = CreateIndexDocuments(vs, documents, variant, fit, 1)
    /\ vs_raised' = TRUE
    /\ UNCHANGED <<s_k, s_results>>
    /\ UNCHANGED <<chunkVars, answerVars, sysVars, embedVars>>

\* lines 147-148: search on a store without an index
StoreSearchUnbuilt ==
    /\ s_k = 0
    /\ vs.index = -1
    /\ \E k \in 1 .. MaxK : s_k' = k
    /\ s_results' = <<>>
    /\ UNCHANGED <<vs, vs_raised>>
    /\ UNCHANGED <<chunkVars, answerVars, sysVars, embedVars>>

\* lines 150-189: search on a built index, for every k and every scoring of the rows
StoreSearch ==
    /\ s_k = 0
    /\ vs.index # -1
    /\ \E k \in 1 .. MaxK, sc \in [0 .. (vs.index - 1) -> ScoreValues] :
           \E ord \in Rankings(vs.index, sc) :
               /\ s_k' = k
               /\ s_results' = Search(vs, ord, sc, k)
    /\ UNCHANGED <<vs, vs_raised>>
    /\ UNCHANGED <<chunkVars, answerVars, sysVars, embedVars>>

InitStore == IdleChunk /\ IdleStore /\ IdleAnswer /\ IdleSystem /\ IdleEmbed

NextStore ==
    \/ StoreCreateIndex
    \/ StoreCreateIndexEmpty
    \/ StoreCreateIndexRaise
    \/ StoreSearchUnbuilt
    \/ StoreSearch

\* one VectorStore: create_index once, then one search
SpecStore == InitStore /\ [][NextStore]_vars

\* the documents of the store that are not filler
Genuine(documents) == SelectSeq(documents, LAMBDA d : d \notin {Padding1, Padding2})
IsFiller(r) == r.preview \in {Padding1.body, Padding2.body}

(***************************************************************************)
(* VectorStore.get_embedding and its tiers.  What a call returns is known  *)
(* by the tier that made the vector; what can go wrong inside a tier (the  *)
(* transform of the vectorizer, the hashing of the text) is an input.      *)
(***************************************************************************)
\* a vector made by the tier, and an exception that leaves the function
Vector(tier) == [raised |-> FALSE, tier |-> tier]
Raised == [raised |-> TRUE, tier |-> "none"]

\* a hash tier without its except clause
CreateSimpleEmbeddingUnguarded(hash_fails) ==
    IF hash_fails THEN Raised ELSE Vector("hash")

\* _create_simple_embedding, lines 63-81: the hash values, or [0.1] * embedding_dim
\* when making them raises
CreateSimpleEmbedding(hash_fails) ==
    IF hash_fails THEN Vector("constant") ELSE Vector("hash")

\* _create_tfidf_embedding, lines 45-61: the transform of the vectorizer, or the
\* simple embedding when it raises
CreateTfidfEmbedding(transform_fails, hash_fails) ==
    IF transform_fails THEN CreateSimpleEmbedding(hash_fails) ELSE Vector("tfidf")

\* get_embedding, lines 33-43: the TF-IDF tier when the vectorizer is set, the
\* simple one when it is None, and the simple one again when either raised
GetEmbedding(fitted, transform_fails, hash_fails) ==
    LET tried == IF fitted THEN CreateTfidfEmbedding(transform_fails, hash_fails)
                 ELSE CreateSimpleEmbedding(hash_fails)
    IN  IF tried.raised THEN CreateSimpleEmbedding(hash_fails) ELSE tried

\* the record of a call
Call(fitted, transform_fails, hash_fails) ==
    LET got == GetEmbedding(fitted, transform_fails, hash_fails)
    IN  [called |-> TRUE, fitted |-> fitted, transform_fails |-> transform_fails,
         hash_fails |-> hash_fails, raised |-> got.raised, tier |-> got.tier]

\* create_index, line 92, and _initialize_tfidf_vectorizer, lines 114-142: the
\* vectorizer is fitted, or left None when sklearn is missing or the fit raises
EmbedFit ==
    /\ epc = "fit"
    /\ \E fit \in BOOLEAN : e_tfidf' = IF fit THEN "fitted" ELSE "none"
    /\ epc' = "embed"
    /\ UNCHANGED <<e_documents, e_embeddings, e_last>>
    /\ UNCHANGED <<chunkVars, storeVars, answerVars, sysVars>>

\* create_index, lines 95-97 and 110-112: the next document is embedded; an
\* exception of get_embedding would leave create_index
EmbedDocument ==
    /\ epc = "embed"
    /\ Len(e_embeddings) < Len(e_documents)
    /\ \E transform_fails, hash_fails \in BOOLEAN :
           LET call == Call(e_tfidf = "fitted", transform_fails, hash_fails)
           IN  /\ e_last' = call
               /\ IF call.raised
                  THEN epc' = "raised" /\ UNCHANGED e_embeddings
                  ELSE epc' = epc /\ e_embeddings' = Append(e_embeddings, call.tier)
    /\ UNCHANGED <<e_documents, e_tfidf>>
    /\ UNCHANGED <<chunkVars, storeVars, answerVars, sysVars>>

\* create_index, lines 99-108: every document has its vector, the index is made
EmbedIndex ==
    /\ epc = "embed"
    /\ Len(e_embeddings) = Len(e_documents)
    /\ epc' = "built"
    /\ UNCHANGED <<e_documents, e_tfidf, e_embeddings, e_last>>
    /\ UNCHANGED <<chunkVars, storeVars, answerVars, sysVars>>

\* search, lines 151 and 191-193: the query is embedded; an exception of
\* get_embedding would be caught by search
EmbedQuery ==
    /\ epc = "built"
    /\ \E transform_fails, hash_fails \in BOOLEAN :
           LET call == Call(e_tfidf = "fitted", transform_fails, hash_fails)
           IN  /\ e_last' = call
               /\ epc' = IF call.raised THEN "raised" ELSE "searched"
    /\ UNCHANGED <<e_documents, e_tfidf, e_embeddings>>
    /\ UNCHANGED <<chunkVars, storeVars, answerVars, sysVars>>

\* create_index is called with any corpus that is not empty
InitEmbed ==
    /\ IdleChunk /\ IdleStore /\ IdleAnswer /\ IdleSystem
    /\ e_documents \in Corpora \ {<<>>}
    /\ e_tfidf = "unset"
    /\ e_embeddings = <<>>
    /\ e_last = NoCall
    /\ epc = "fit"

NextEmbed == EmbedFit \/ EmbedDocument \/ EmbedIndex \/ EmbedQuery

\* the embeddings of one build and of one search after it
SpecEmbed == InitEmbed /\ [][NextEmbed]_vars

(***************************************************************************)
(* RAGPipeline.get_response_with_sources.  Scores and the confidence are   *)
(* in hundredths.  A Python dict keeps its keys in insertion order, and    *)
(* assigning to a key it holds keeps the key's place: source_map is the    *)
(* sequence of its values in that order.                                   *)
(***************************************************************************)
MaxShown == 3
ConfidenceShift == 30
ConfidenceFloor == 50
ConfidenceCap == 95

\* a comparison that also replaces the kept result on a tie
BetterOrEqual(r, kept) == r.similarity_score >= kept.similarity_score

\* line 32: result replaces the one kept for its source
Better(r, kept) == r.similarity_score > kept.similarity_score

\* the place of the key name in source_map, 0 when it has no such key
KeyIndex(map, name) ==
    IF \E p \in 1 .. Len(map) : map[p].source_name = name
    THEN CHOOSE p \in 1 .. Len(map) : map[p].source_name = name
    ELSE 0

\* lines 29-33: the loop over the results, from result i on
RECURSIVE SourceMap(_, _, _)
SourceMap(results, i, map) ==
    IF i > Len(results) THEN map
    ELSE
        LET result == results[i]
            p == KeyIndex(map, result.source_name)
        IN  SourceMap(results, i + 1,
                      IF p = 0 THEN Append(map, result)
                      ELSE IF Better(result, map[p]) THEN [map EXCEPT ![p] = result]
                      ELSE map)

\* line 36: list(source_map.values())
UniqueSources(results) == SourceMap(results, 1, <<>>)

\* a return value that does not cut the list of sources
ShownAll(unique_sources) == unique_sources

\* line 48: unique_sources[:3]
Shown(unique_sources) == SubSeq(unique_sources, 1, Min(MaxShown, Len(unique_sources)))

\* a confidence without the lower clamp
ConfidenceNoFloor(score) == Min(ConfidenceCap, score + ConfidenceShift)

\* line 49: min(0.95, max(0.5, score + 0.3))
Confidence(score) == Min(ConfidenceCap, Max(ConfidenceFloor, score + ConfidenceShift))

\* the results the function may be handed: any sources, any scores, in any order
\* (inner products of unit vectors lie in [-1, 1]: both ends and a score that
\* the confidence leaves unclamped)
ResultSources == {" a.txt", " b.txt", " c.txt", "Unknown"}
ResultScores == {-100, 40, 100}

\* the list of n results with the sources srcs and the scores scs
ResultList(n, srcs, scs) ==
    [i \in 1 .. n |-> [chunk_id |-> i, source_name |-> srcs[i],
                       similarity_score |-> scs[i], preview |-> <<"text">>]]

\* lines 18-24: no results
AnswerEmpty ==
    /\ apc = "call"
    /\ a_results = <<>>
    /\ answer' = [response |-> "I couldn't find any relevant information in the uploaded documents.",
                  sources |-> <<>>, confidence |-> 0, num_sources |-> 0]
    /\ apc' = "done"
    /\ UNCHANGED <<a_results, a_unique>>
    /\ UNCHANGED <<chunkVars, storeVars, sysVars, embedVars>>

\* lines 26-50
AnswerSources ==
    /\ apc = "call"
    /\ a_results # <<>>
    /\ LET unique_sources == UniqueSources(a_results)
           top_source == unique_sources[1]
       IN  /\ a_unique' = unique_sources
           /\ answer' = [response |-> <<"Based on", top_source.source_name, top_source.preview>>,
                         sources |-> Shown(unique_sources),
                         confidence |-> Confidence(top_source.similarity_score),
                         num_sources |-> Len(unique_sources)]
    /\ apc' = "done"
    /\ UNCHANGED a_results
    /\ UNCHANGED <<chunkVars, storeVars, sysVars, embedVars>>

InitAnswer ==
    /\ IdleChunk /\ IdleStore /\ IdleSystem /\ IdleEmbed
    /\ \E n \in 0 .. MaxResults :
           \E srcs \in [1 .. n -> ResultSources], scs \in [1 .. n -> ResultScores] :
               a_results = ResultList(n, srcs, scs)
    /\ a_unique = <<>>
    /\ answer = NoAnswer
    /\ apc = "call"

NextAnswer == AnswerEmpty \/ AnswerSources

\* get_response_with_sources on every list of up to MaxResults results
SpecAnswer == InitAnswer /\ [][NextAnswer]_vars

(***************************************************************************)
(* api/routes.py.  The handlers share the globals rag_pipeline and         *)
(* processed_documents and the upload directory.  process_documents and    *)
(* query_documents are taken a step at a time (one step per call into the  *)
(* core), and the steps of one request in flight may interleave with those *)
(* of another and with whole requests: the event loop, which runs each     *)
(* handler to its end because no handler awaits, allows only some of these *)
(* interleavings.  A RAGPipeline is known by the number of its store.      *)
(***************************************************************************)
Files == {"a.txt", "b.txt", "bad.bin"}

\* process_document: the chunks of a file, none when its text cannot be extracted
FileChunks(f) ==
    IF f = "a.txt" THEN <<WithMetadata("a.txt", <<"alpha", "beta">>)>>
    ELSE IF f = "b.txt"
         THEN <<WithMetadata("b.txt", <<"gamma">>),
                WithMetadata("b.txt", <<"a", "padding", "document", "for", "TF-IDF", "here">>)>>
         ELSE <<>>

\* the file_ids of a request: any files, each once, in any order
Requests ==
    {ids \in UNION {[1 .. n -> Files] : n \in 0 .. Cardinality(Files)} :
        \A i, j \in 1 .. Len(ids) : ids[i] = ids[j] => i = j}

\* Python frees an object nothing refers to: a store that is neither in place nor
\* held by a request in flight is gone, and its number stands for no object
Collect(heap, held) == [i \in 1 .. MaxBuilds |-> IF i \in held THEN heap[i] ELSE FreshStore]

\* the stores a request in flight holds
HeldBy(request) == IF request.pc = "idle" THEN {} ELSE {request.store}

\* a handler that builds the new index in the store already in use
ReuseActiveStore(active, fresh) == IF active # 0 THEN active ELSE fresh

\* line 86: the store the request builds its index in: a new VectorStore
NewStore(active, fresh) == fresh

\* a search that looks the store up in the global at every step
StoreInPlace(bound, global) == IF global # 0 THEN global ELSE bound

\* rag_pipeline.py line 16, self.vector_store: the store a request in flight
\* searches is the one of the pipeline it was bound to, whatever the global now is
StoreOf(bound, global) == bound

\* the components of a complete generation: all written by one build
Complete(store) ==
    /\ store.documents # <<>>
    /\ store.index = Len(store.documents)
    /\ store.rows = Len(store.documents)
    /\ store.docs_gen # 0
    /\ store.docs_gen = store.vec_gen
    /\ store.docs_gen = store.idx_gen

\* vector_store.py lines 13 and 50: the width of every embedding
EmbeddingDim == 384

\* the texts of a query: empty, white space only, or with a word
QueryTexts == {<<>>, <<" ">>, <<"x">>}

\* schemas.py line 32: min_length=1
Accepted(query) == Len(query) >= 1

\* a check that refuses the empty text only
IsEmptyOnly(query) == query = <<>>

\* line 168: not request.query.strip()
IsBlank(query) == Strip(query) = <<>>

\* a handler that answers a query on no corpus with the empty answer
EmptyAnswerResponse(query) == QueryResponse(200, "", query)

\* lines 162-166 and 183-184: the HTTPException(400) raised when rag_pipeline is
\* None is caught by the handler's own except clause and raised again as a 500
NotReadyResponse(query) == QueryResponse(500, "No documents processed", query)

\* a clear that leaves the pipeline in place
KeepPipeline(pipeline) == pipeline

\* line 222: rag_pipeline = None
ResetPipeline(pipeline) == 0

\* an assignment in the place of extend
Overwrite(all_chunks, file_chunks) == file_chunks

\* line 128: all_chunks.extend(chunks)
Extend(all_chunks, file_chunks) == all_chunks \o file_chunks

\* get_system_stats, lines 192-209, with get_pipeline_stats
SystemStats(pipeline, documents, heap) ==
    IF pipeline = 0
    THEN [total_documents |-> 0, total_chunks |-> 0, embedding_dimension |-> 0,
          index_size |-> 0, status |-> "not_ready"]
    ELSE [total_documents |-> Len(documents),
          total_chunks |-> Len(heap[pipeline].documents),
          embedding_dimension |-> EmbeddingDim,
          index_size |-> heap[pipeline].rows,
          status |-> "ready"]

\* upload_documents, lines 36-73, for one file of an accepted type
Upload ==
    /\ \E f \in Files : uploads' = uploads \cup {f}
    /\ resp' = Response("upload", 200, "")
    /\ UNCHANGED <<stores, allocated, rag_pipeline, processed_documents, ing, qry, committed>>
    /\ UNCHANGED <<chunkVars, storeVars, answerVars, embedVars>>

\* process_documents, lines 80-86 and 153-154: no API key, or VectorStore(...)
\* raises because the key cannot be verified
IngestRefused ==
    /\ ing.pc = "idle"
    /\ resp' = Response("process", 500, "API key is required")
    /\ UNCHANGED <<uploads, stores, allocated, rag_pipeline, processed_documents, ing, qry,
                   committed>>
    /\ UNCHANGED <<chunkVars, storeVars, answerVars, embedVars>>

\* process_documents, lines 80-90
IngestBegin ==
    /\ ing.pc = "idle"
    /\ allocated < MaxBuilds
    /\ \E file_ids \in Requests :
           ing' = [pc |-> "files", file_ids |-> file_ids, all_chunks |-> <<>>,
                   processed_files |-> <<>>,
                   store |-> NewStore(rag_pipeline, allocated + 1),
                   build |-> allocated + 1]
    /\ allocated' = allocated + 1
    /\ UNCHANGED <<uploads, stores, rag_pipeline, processed_documents, qry, resp, committed>>
    /\ UNCHANGED <<chunkVars, storeVars, answerVars, embedVars>>

\* lines 92-101 and 153-154: the next file id names no uploaded file
IngestFileMissing ==
    /\ ing.pc = "files"
    /\ ing.file_ids # <<>>
    /\ Head(ing.file_ids) \notin uploads
    /\ ing' = NoIngest
    /\ resp' = Response("process", 500, "File not found")
    /\ UNCHANGED <<uploads, stores, allocated, rag_pipeline, processed_documents, qry,
                   committed>>
    /\ UNCHANGED <<chunkVars, storeVars, answerVars, embedVars>>

\* lines 92-133: the next file is processed and its chunks are added
IngestFile ==
    /\ ing.pc = "files"
    /\ ing.file_ids # <<>>
    /\ Head(ing.file_ids) \in uploads
    /\ ing' = [ing EXCEPT !.file_ids = Tail(ing.file_ids),
                          !.all_chunks = Extend(ing.all_chunks,
                                                FileChunks(Head(ing.file_ids))),
                          !.processed_files =
                              Append(ing.processed_files,
                                     [file_id |-> Head(ing.file_ids),
                                      chunks_count |-> Len(FileChunks(Head(ing.file_ids)))])]
    /\ UNCHANGED <<uploads, stores, allocated, rag_pipeline, processed_documents, qry, resp,
                   committed>>
    /\ UNCHANGED <<chunkVars, storeVars, answerVars, embedVars>>

\* lines 135-136 and 153-154: no chunk survived
IngestNoChunks ==
    /\ ing.pc = "files"
    /\ ing.file_ids = <<>>
    /\ ing.all_chunks = <<>>
    /\ ing' = NoIngest
    /\ resp' = Response("process", 500, "No text could be extracted from documents")
    /\ UNCHANGED <<uploads, stores, allocated, rag_pipeline, processed_documents, qry,
                   committed>>
    /\ UNCHANGED <<chunkVars, storeVars, answerVars, embedVars>>

\* line 139, create_index lines 85-92: the documents and the vectorizer
IngestBuildDocuments ==
    /\ ing.pc = "files"
    /\ ing.file_ids = <<>>
    /\ ing.all_chunks # <<>>
    /\ \E fit \in BOOLEAN :
           stores' = [stores EXCEPT ![ing.store] =
                          CreateIndexDocuments(stores[ing.store], ing.all_chunks, "plain",
                                               fit, ing.build)]
    /\ ing' = [ing EXCEPT !.pc = "vectors"]
    /\ UNCHANGED <<uploads, allocated, rag_pipeline, processed_documents, qry, resp,
                   committed>>
    /\ UNCHANGED <<chunkVars, storeVars, answerVars, embedVars>>

\* line 139, create_index lines 94-108: the vectors and the index
IngestBuildVectors ==
    /\ ing.pc = "vectors"
    /\ stores' = [stores EXCEPT ![ing.store] = CreateIndexVectors(stores[ing.store], ing.build)]
    /\ ing' = [ing EXCEPT !.pc = "commit"]
    /\ UNCHANGED <<uploads, allocated, rag_pipeline, processed_documents, qry, resp,
                   committed>>
    /\ UNCHANGED <<chunkVars, storeVars, answerVars, embedVars>>

\* line 139, create_index lines 94-111, and 153-154: the build raises
IngestBuildRaise ==
    /\ ing.pc = "vectors"
    /\ ing' = NoIngest
    /\ resp' = Response("process", 500, "create_index raised")
    /\ stores' = Collect(stores, {rag_pipeline} \cup HeldBy(qry))
    /\ UNCHANGED <<uploads, allocated, rag_pipeline, processed_documents, qry, committed>>
    /\ UNCHANGED <<chunkVars, storeVars, answerVars, embedVars>>

\* lines 142-151: the new pipeline and its chunks are put in place
IngestCommit ==
    /\ ing.pc = "commit"
    /\ rag_pipeline' = ing.store
    /\ processed_documents' = ing.all_chunks
    /\ committed' = [pipeline |-> ing.store, store |-> stores[ing.store],
                     documents |-> ing.all_chunks,
                     gens |-> committed.gens \cup {stores[ing.store].idx_gen}]
    /\ ing' = NoIngest
    /\ resp' = Response("process", 200, "")
    /\ stores' = Collect(stores, {ing.store} \cup HeldBy(qry))
    /\ UNCHANGED <<uploads, allocated, qry>>
    /\ UNCHANGED <<chunkVars, storeVars, answerVars, embedVars>>

\* schemas.py line 32: the empty text does not pass the validation of the
\* request, and the handler is not called
QueryTooShort ==
    /\ \E query \in QueryTexts :
           /\ ~Accepted(query)
           /\ resp' = QueryResponse(422, "String should have at least 1 character", query)
    /\ UNCHANGED <<uploads, stores, allocated, rag_pipeline, processed_documents, ing, qry,
                   committed>>
    /\ UNCHANGED <<chunkVars, storeVars, answerVars, embedVars>>

\* query_documents, lines 161-166 and 183-184: nothing processed
QueryNotReady ==
    /\ qry.pc = "idle"
    /\ rag_pipeline = 0
    /\ \E query \in QueryTexts :
           /\ Accepted(query)
           /\ resp' = NotReadyResponse(query)
    /\ UNCHANGED <<uploads, stores, allocated, rag_pipeline, processed_documents, ing, qry,
                   committed>>
    /\ UNCHANGED <<chunkVars, storeVars, answerVars, embedVars>>

\* lines 168-169 and 183-184: a query of white space only
QueryBlank ==
    /\ qry.pc = "idle"
    /\ rag_pipeline # 0
    /\ \E query \in QueryTexts :
           /\ Accepted(query)
           /\ IsBlank(query)
           /\ resp' = QueryResponse(500, "Query cannot be empty", query)
    /\ UNCHANGED <<uploads, stores, allocated, rag_pipeline, processed_documents, ing, qry,
                   committed>>
    /\ UNCHANGED <<chunkVars, storeVars, answerVars, embedVars>>

\* lines 161-172: the request is bound to the pipeline in place
QueryBegin ==
    /\ qry.pc = "idle"
    /\ rag_pipeline # 0
    /\ \E query \in QueryTexts :
           /\ Accepted(query)
           /\ ~IsBlank(query)
           /\ qry' = [pc |-> "embed", query |-> query, store |-> rag_pipeline,
                      gen |-> stores[rag_pipeline].idx_gen,
                      vec_gen |-> -1, idx_gen |-> -1, docs_gen |-> -1]
    /\ UNCHANGED <<uploads, stores, allocated, rag_pipeline, processed_documents, ing, resp,
                   committed>>
    /\ UNCHANGED <<chunkVars, storeVars, answerVars, embedVars>>

\* search, lines 147-152: the query is embedded with the store's vectorizer
QueryEmbed ==
    /\ qry.pc = "embed"
    /\ qry' = [qry EXCEPT !.pc = "rank", !.vec_gen = stores[StoreOf(qry.store, rag_pipeline)].vec_gen]
    /\ UNCHANGED <<uploads, stores, allocated, rag_pipeline, processed_documents, ing, resp,
                   committed>>
    /\ UNCHANGED <<chunkVars, storeVars, answerVars, embedVars>>

\* search, lines 153-189, and query_documents, lines 172-181: the index is
\* searched, the documents of the rows are read and the answer is sent
QueryRank ==
    /\ qry.pc = "rank"
    /\ qry' = [qry EXCEPT !.pc = "idle",
                          !.idx_gen = stores[StoreOf(qry.store, rag_pipeline)].idx_gen,
                          !.docs_gen = stores[StoreOf(qry.store, rag_pipeline)].docs_gen,
                          !.query = <<>>]
    /\ resp' = QueryResponse(200, "", qry.query)
    /\ stores' = Collect(stores, {rag_pipeline} \cup HeldBy(ing))
    /\ UNCHANGED <<uploads, allocated, rag_pipeline, processed_documents, ing, committed>>
    /\ UNCHANGED <<chunkVars, storeVars, answerVars, embedVars>>

\* clear_documents, lines 216-236
Clear ==
    /\ rag_pipeline' = ResetPipeline(rag_pipeline)
    /\ processed_documents' = <<>>
    /\ uploads' = {}
    /\ committed' = [committed EXCEPT !.pipeline = 0, !.store = FreshStore,
                                      !.documents = <<>>]
    /\ resp' = Response("clear", 200, "")
    /\ stores' = Collect(stores, {rag_pipeline'} \cup HeldBy(ing) \cup HeldBy(qry))
    /\ UNCHANGED <<allocated, ing, qry>>
    /\ UNCHANGED <<chunkVars, storeVars, answerVars, embedVars>>

\* get_system_stats, lines 186-214
Stats ==
    /\ resp' = [Response("stats", 200, "") EXCEPT
                    !.stats = SystemStats(rag_pipeline, processed_documents, stores)]
    /\ UNCHANGED <<uploads, stores, allocated, rag_pipeline, processed_documents, ing, qry,
                   committed>>
    /\ UNCHANGED <<chunkVars, storeVars, answerVars, embedVars>>

Init == IdleChunk /\ IdleStore /\ IdleAnswer /\ IdleSystem /\ IdleEmbed

Next ==
    \/ Upload
    \/ IngestRefused
    \/ IngestBegin
    \/ IngestFileMissing
    \/ IngestFile
    \/ IngestNoChunks
    \/ IngestBuildDocuments
    \/ IngestBuildVectors
    \/ IngestBuildRaise
    \/ IngestCommit
    \/ QueryTooShort
    \/ QueryNotReady
    \/ QueryBlank
    \/ QueryBegin
    \/ QueryEmbed
    \/ QueryRank
    \/ Clear
    \/ Stats

\* the service: uploads, ingests, queries and clears in any order
Spec == Init /\ [][Next]_vars

(***************************************************************************)
(* Claims about the chunker.                                               *)
(***************************************************************************)

\* C1: every iteration of the chunking loop moves start strictly forward, for
\* every chunk_size >= 1 and overlap >= 0, so that the loop terminates.
C1_StrictProgress == [][ChunkLoop => start' > start]_vars

\* C2: a cleaned text with 0 < len(T) < chunk_size is returned as exactly one chunk.
C2_ShortTextOneChunk ==
    (cpc = "done" /\ IsCleaned(text) /\ 0 < Len(text) /\ Len(text) < chunk_size)
        => Len(chunks) = 1

\* C3 (as claimed): the 1500-character document yields exactly 2 chunks whatever
\* the positions of "." and " ", and the second chunk starts at or before offset 1000.
C3_ExactlyTwoChunks ==
    cpc = "done" => (Len(chunks) = 2 /\ ranges[2][1] <= DefaultChunkSize)

\* C3 (amended): the 1500-character document yields at least 2 chunks, exactly 2
\* if and only if the first chunk ends at offset 900 or later (as it does when no
\* "." or " " lies in the backward-search window), and the second chunk starts at
\* or before offset 1000.
C3_AtLeastTwoChunks ==
    cpc = "done" =>
        /\ Len(chunks) >= 2
        /\ Len(chunks) = Len(ranges)
        /\ ranges[2][1] <= DefaultChunkSize
        /\ (Len(chunks) = 2 <=>
               ranges[1][2] >= ScenarioLen - (DefaultChunkSize - 2 * DefaultChunkOverlap))

\* a boundary shortened the first chunk and a third chunk was produced
C3_Witness ==
    /\ cpc = "done"
    /\ Len(text) = ScenarioLen
    /\ chunk_size = DefaultChunkSize
    /\ Len(chunks) = 3
    /\ ranges[1][2] < DefaultChunkSize

\* C4: the [start, end) ranges of successive iterations leave no gap: the first
\* starts at 0, each starts at or before the end of the previous one, and once the
\* loop has ended every character position of the text lies in some range.
C4_NoGap ==
    /\ Len(ranges) > 0 => ranges[1][1] = 0
    /\ \A i \in 1 .. (Len(ranges) - 1) : ranges[i + 1][1] <= ranges[i][2]
    /\ (cpc = "done" /\ text # <<>>) =>
           \A p \in 0 .. (Len(text) - 1) :
               \E i \in 1 .. Len(ranges) : ranges[i][1] <= p /\ p < ranges[i][2]

\* a terminated run of three or more iterations whose ranges overlap
C4_Witness ==
    /\ cpc = "done"
    /\ Len(ranges) >= 3
    /\ chunk_overlap > 0
    /\ ranges[2][1] < ranges[1][2]
    /\ ranges[Len(ranges)][2] >= Len(text)

(***************************************************************************)
(* Claims about search.                                                    *)
(***************************************************************************)

\* C7: search(q, k) never returns more than k results and never returns one of
\* the filler chunks injected at build time.
C7_NoFillerAtMostK ==
    s_k > 0 =>
        /\ Len(s_results) <= s_k
        /\ \A i \in 1 .. Len(s_results) : ~IsFiller(s_results[i])

\* C8: whenever the index holds at least k genuine chunks, search(q, k) returns
\* exactly k results, all of them genuine.
C8_ExactlyKGenuine ==
    (s_k > 0 /\ vs.index # -1 /\ Len(Genuine(vs.documents)) >= s_k) =>
        /\ Len(s_results) = s_k
        /\ \A i \in 1 .. Len(s_results) : ~IsFiller(s_results[i])

(***************************************************************************)
(* Claims about the answer.                                                *)
(***************************************************************************)
\* the places of the results of source name, and the best score among them
PlacesOf(results, name) == {i \in 1 .. Len(results) : results[i].source_name = name}
FirstBest(results, name) ==
    CHOOSE i \in PlacesOf(results, name) :
        \A j \in PlacesOf(results, name) :
            \/ results[j].similarity_score < results[i].similarity_score
            \/ (results[j].similarity_score = results[i].similarity_score /\ i <= j)
FirstPlace(results, name) ==
    CHOOSE i \in PlacesOf(results, name) : \A j \in PlacesOf(results, name) : i <= j

\* C9: the deduplicated list holds exactly one entry per distinct source_name of
\* the results, that entry is the highest-scoring result of the source (the
\* first-seen one on a tie), and the entries are in the order in which their
\* sources first appear in the results.
C9_Dedup ==
    apc = "done" =>
        /\ \A i \in 1 .. Len(a_results) :
               \E p \in 1 .. Len(a_unique) : a_unique[p].source_name = a_results[i].source_name
        /\ \A p, q \in 1 .. Len(a_unique) :
               a_unique[p].source_name = a_unique[q].source_name => p = q
        /\ \A p \in 1 .. Len(a_unique) :
               /\ PlacesOf(a_results, a_unique[p].source_name) # {}
               /\ a_unique[p] = a_results[FirstBest(a_results, a_unique[p].source_name)]
        /\ \A p, q \in 1 .. Len(a_unique) :
               p < q => FirstPlace(a_results, a_unique[p].source_name)
                            < FirstPlace(a_results, a_unique[q].source_name)

\* the example of the claim with a tie added, [{A,hi},{A,lo},{B,mid},{A,hi}]
C9_Witness ==
    /\ apc = "done"
    /\ Len(a_results) = 4
    /\ a_results[1].source_name = " a.txt" /\ a_results[1].similarity_score = 100
    /\ a_results[2].source_name = " a.txt" /\ a_results[2].similarity_score = -100
    /\ a_results[3].source_name = " b.txt" /\ a_results[3].similarity_score = 40
    /\ a_results[4].source_name = " a.txt" /\ a_results[4].similarity_score = 100
    /\ a_unique = <<a_results[1], a_results[3]>>

\* C10: the answer exposes at most 3 sources, with pairwise distinct source_name.
C10_AtMostThreeDistinct ==
    apc = "done" =>
        /\ Len(answer.sources) <= 3
        /\ \A p, q \in 1 .. Len(answer.sources) :
               answer.sources[p].source_name = answer.sources[q].source_name => p = q

\* four distinct sources matched and three of them are exposed
C10_Witness ==
    /\ apc = "done"
    /\ Len(a_unique) = 4
    /\ answer.num_sources = 4
    /\ Len(answer.sources) = 3

(***************************************************************************)
(* Claims about the corpus generation.                                     *)
(***************************************************************************)

\* C5: the generation in place (the pipeline, its chunks and its vectors) is
\* always the one last put in place whole, by a successful ingest or by a clear:
\* no failed ingest, at whatever step it fails, changes any part of it.
C5_NoPartialUpdate ==
    /\ rag_pipeline = committed.pipeline
    /\ processed_documents = committed.documents
    /\ rag_pipeline # 0 =>
           /\ stores[rag_pipeline] = committed.store
           /\ Complete(stores[rag_pipeline])
           /\ processed_documents = stores[rag_pipeline].documents

\* an ingest failed during the index build while an earlier generation is in place
C5_Witness ==
    /\ resp = Response("process", 500, "create_index raised")
    /\ ing.pc = "idle"
    /\ rag_pipeline # 0
    /\ allocated > rag_pipeline

\* C6: whatever a query in flight has read (the vectorizer, the index, the
\* documents), it read from one generation, the one that was in place, whole, when
\* the query began, even when an ingest or a clear has replaced it meanwhile.
C6_OneGeneration ==
    qry.store # 0 =>
        /\ qry.gen \in committed.gens
        /\ \A g \in {qry.vec_gen, qry.idx_gen, qry.docs_gen} : g \in {-1, qry.gen}

\* a query that finished on the old generation after a new one was put in place
C6_Witness ==
    /\ qry.pc = "idle"
    /\ qry.store # 0
    /\ qry.docs_gen = qry.gen
    /\ rag_pipeline # 0
    /\ rag_pipeline # qry.store
    /\ resp = QueryResponse(200, "", <<"x">>)

\* C11: for a non-empty result list the confidence is the score of the top
\* source (the best result of the source ranked first) plus 0.3, clamped to
\* [0.5, 0.95]: 0.5 for a top score of -1.0 and 0.95 for a top score of 1.0.
\* The confidence is 0.0 exactly when the result list is empty.
C11_ConfidenceClamp ==
    apc = "done" =>
        /\ (answer.confidence = 0) <=> (a_results = <<>>)
        /\ a_results # <<>> =>
               LET top_score ==
                       a_results[FirstBest(a_results, a_results[1].source_name)].similarity_score
               IN  /\ answer.confidence >= 50 /\ answer.confidence <= 95
                   /\ top_score + 30 < 50 => answer.confidence = 50
                   /\ top_score + 30 > 95 => answer.confidence = 95
                   /\ (top_score + 30 >= 50 /\ top_score + 30 <= 95) =>
                          answer.confidence = top_score + 30
                   /\ top_score = -100 => answer.confidence = 50
                   /\ top_score = 100 => answer.confidence = 95

\* a top score of -1.0 answered with the confidence 0.5, while a later source
\* scores 1.0
C11_Witness ==
    /\ apc = "done"
    /\ Len(a_results) = 2
    /\ a_results[1].similarity_score = -100
    /\ a_results[2].similarity_score = 100
    /\ a_results[1].source_name # a_results[2].source_name
    /\ answer.confidence = 50

\* C12: a clear leaves the service empty and not ready: the statistics read
\* right after it report zero chunks, zero index rows and the status not_ready,
\* and a query is accepted only while a generation committed since the last
\* clear is in place, and is then bound to that generation and to no other.
C12_ClearResets ==
    [][/\ Clear =>
              LET stats == SystemStats(rag_pipeline', processed_documents', stores')
              IN  /\ stats.total_chunks = 0
                  /\ stats.index_size = 0
                  /\ stats.status = "not_ready"
       /\ (qry.pc = "idle" /\ qry'.pc # "idle") =>
              /\ committed.pipeline # 0
              /\ qry'.store = committed.pipeline
              /\ qry'.gen = committed.store.idx_gen
       /\ (resp' # resp /\ resp'.handler = "query" /\ committed.pipeline = 0
              /\ qry.pc = "idle") => resp'.status # 200]_vars

\* a generation was committed and cleared, and the query that followed was refused
C12_Witness ==
    /\ committed.gens # {}
    /\ rag_pipeline = 0
    /\ committed.pipeline = 0
    /\ resp = NotReadyResponse(<<"x">>)

\* C13 as stated: a query with a word, answered while no corpus is in place,
\* gets an answer and not an error.
C13_EmptyCorpusAnswered ==
    [][(rag_pipeline = 0 /\ qry.pc = "idle" /\ resp' # resp /\ resp'.handler = "query"
            /\ resp'.query = <<"x">>) => resp'.status = 200]_vars

\* C13, amended: a query with a word issued while no corpus is in place (before
\* any successful ingest, or after a clear) is refused with an error: it is not
\* accepted, nothing is embedded or searched for it, and the response is the
\* error "No documents processed".
C13_EmptyCorpusRefused ==
    [][(rag_pipeline = 0 /\ qry.pc = "idle") =>
          /\ qry' = qry
          /\ (resp' # resp /\ resp'.handler = "query" /\ resp'.query = <<"x">>) =>
                 /\ resp'.status >= 400
                 /\ resp'.detail = "No documents processed"]_vars

\* before any ingest has succeeded, the query "x" was refused
C13_Witness ==
    /\ committed.gens = {}
    /\ rag_pipeline = 0
    /\ resp.handler = "query"
    /\ resp.query = <<"x">>
    /\ resp.status = 500

\* a text with no character other than white space
OnlyWhiteSpace(query) == \A i \in 1 .. Len(query) : query[i] = " "

Skipped(processed_files) ==
    {i \in 1 .. Len(processed_files) : processed_files[i].file_id = "bad.bin"}

\* the sum of the chunks_count of processed_files
RECURSIVE ChunksCounted(_)
ChunksCounted(processed_files) ==
    IF processed_files = <<>> THEN 0
    ELSE Head(processed_files).chunks_count + ChunksCounted(Tail(processed_files))

\* C15: a document whose text cannot be extracted is skipped and adds no chunk,
\* the chunks already collected are kept and the rest of the batch is still
\* processed; what is committed and indexed is every chunk of the other
\* documents; after the last document the batch is aborted only when no chunk
\* at all was collected.
C15_FailedExtractionSkipped ==
    [][/\ (ing.pc = "files" /\ ing'.pc = "files" /\ ing' # ing) =>
              LET f == Head(ing.file_ids)
                  done == ing'.processed_files[Len(ing'.processed_files)]
              IN  /\ ing'.file_ids = Tail(ing.file_ids)
                  /\ done.file_id = f
                  /\ f = "bad.bin" => (done.chunks_count = 0 /\ ing'.all_chunks = ing.all_chunks)
                  /\ f # "bad.bin" => done.chunks_count > 0
                  /\ Len(ing'.all_chunks) = Len(ing.all_chunks) + done.chunks_count
                  /\ SubSeq(ing'.all_chunks, 1, Len(ing.all_chunks)) = ing.all_chunks
                  /\ \A i \in Len(ing.all_chunks) + 1 .. Len(ing'.all_chunks) :
                         ing'.all_chunks[i].source = f
       /\ (ing.pc = "files" /\ ing.file_ids = <<>> /\ ing'.pc = "idle") =>
              /\ ing.all_chunks = <<>>
              /\ \A i \in 1 .. Len(ing.processed_files) : i \in Skipped(ing.processed_files)
       /\ (ing.pc = "commit" /\ ing'.pc = "idle") =>
              /\ processed_documents' = ing.all_chunks
              /\ Len(ing.all_chunks) = ChunksCounted(ing.processed_files)
              /\ stores'[rag_pipeline'].documents = ing.all_chunks
              /\ stores'[rag_pipeline'].rows = Len(ing.all_chunks)]_vars

\* a batch of three documents, the second of which cannot be read, is ready to
\* be committed with the chunks of the other two
C15_Witness ==
    /\ ing.pc = "commit"
    /\ Len(ing.processed_files) = 3
    /\ Skipped(ing.processed_files) = {2}
    /\ Len(ing.all_chunks) = 3
    /\ stores[ing.store].rows = 3

\* C16: in every state of a vector store the number of stored chunks equals
\* the number of vector rows and the number of rows of the index, also after a
\* build that raised part-way.
C16_ChunksMatchRows ==
    /\ Len(vs.documents) = vs.rows
    /\ Len(vs.documents) = (IF vs.index = -1 THEN 0 ELSE vs.index)

\* C17: the preview of a search result is at most 300 characters long, the
\* ellipsis included.
C17_PreviewAtMost300 ==
    \A i \in 1 .. Len(s_results) : Len(s_results[i].preview) <= 300

\* C19: on a built index of n chunks, for every k >= 1, no result stands for
\* the label -1 that fills the candidates when k > n, and at most min(k, n)
\* results are returned.
C19_ResultsAreRows ==
    (s_k > 0 /\ vs.index # -1) =>
        /\ Len(s_results) <= Min(s_k, vs.index)
        /\ \A i \in 1 .. Len(s_results) : s_results[i].similarity_score # MissingScore

\* the tier that has to make the vector, given what fails
ExpectedTier(fitted, transform_fails, hash_fails) ==
    IF fitted /\ ~transform_fails THEN "tfidf"
    ELSE IF ~hash_fails THEN "hash"
    ELSE "constant"

\* C18: get_embedding never raises: whatever fails (no fitted vectorizer, the
\* transform, the hashing), a call returns the vector of the first tier that
\* works, in the order TF-IDF, hash, constant; and a build whose fit failed is
\* not aborted: it goes on to embed every document and to make the index.
C18_EmbeddingNeverRaises ==
    /\ epc # "raised"
    /\ e_last.called =>
           /\ ~e_last.raised
           /\ e_last.tier = ExpectedTier(e_last.fitted, e_last.transform_fails,
                                         e_last.hash_fails)
    /\ \A i \in 1 .. Len(e_embeddings) :
           /\ e_embeddings[i] \in {"tfidf", "hash", "constant"}
           /\ e_embeddings[i] = "tfidf" => e_tfidf = "fitted"
    /\ epc = "embed" => ENABLED (EmbedDocument \/ EmbedIndex)
    /\ epc \in {"built", "searched"} => Len(e_embeddings) = Len(e_documents)

\* the fit failed, the hashing failed for the first document and worked for the
\* second, the index was built, and the query got the constant vector
C18_Witness ==
    /\ epc = "searched"
    /\ e_tfidf = "none"
    /\ e_embeddings = <<"constant", "hash">>
    /\ e_last.hash_fails
    /\ e_last.tier = "constant"

====
